---- MODULE Spec2Model ----
(***************************************************************************)
(* Trading agent dashboard (src/main.py): the reconciliation of closed     *)
(* positions from consecutive account snapshots (get_closed_positions),    *)
(* the balance PnL statistics per regime (ui_pnl_stats) and the closed     *)
(* position statistics per regime (ui_closed_positions).                   *)
(*                                                                         *)
(* Timestamps are integer ticks, TicksPerDay ticks to a calendar day; day  *)
(* 0 is 2025-12-04, so that the split date 2025-12-05 is day SplitDate.    *)
(* Prices and balances are integers. An Optional value is the empty        *)
(* sequence (None) or a one-element sequence.                              *)
(***************************************************************************)
EXTENDS Integers, Sequences, FiniteSets, TLC

VARIABLES
    account_snapshots,      \* table account_snapshots, in id order
    open_positions,         \* table open_positions, in id order
    pc,                     \* position of the request handler
    rows,                   \* get_closed_positions: cur.fetchall()
    snapshots_map,          \* get_closed_positions: snap_id -> snapshot (a dict, insertion ordered)
    sorted_snap_ids,        \* get_closed_positions: snapshot ids by created_at
    i,                      \* get_closed_positions: loop index (1-based)
    position_start_times,   \* get_closed_positions: pos_key -> first sighting
    closed_positions,       \* get_closed_positions: the records emitted / returned
    points,                 \* ui_pnl_stats: get_balance()
    pnl_context,            \* ui_pnl_stats: the template context returned
    closed_context,         \* ui_closed_positions: the template context returned
    other                   \* a second invocation of get_closed_positions: its locals

vars == <<account_snapshots, open_positions, pc, rows, snapshots_map, sorted_snap_ids,
          i, position_start_times, closed_positions, points, pnl_context, closed_context, other>>

recon_vars == <<rows, snapshots_map, sorted_snap_ids, i, position_start_times,
                closed_positions>>

-----------------------------------------------------------------------------
(* Bounds and program constants *)

MaxSnapshots == 4
MaxPoints == 3
MaxDashSnapshots == 4
MaxTwoSnapshots == 3
MaxTieSnapshots == 3
MaxRowSnapshots == 3
MaxDupSnapshots == 2
MaxRows == 2
MaxHead == 3
MaxTail == 20
TicksPerDay == 2
SplitDate == 1
InitialBalanceNew == 1032
DisplayLimit == 20

-----------------------------------------------------------------------------
(* Values *)

None == <<>>
Some(v) == <<v>>

\* float(x) of a database numeric: the prices of the model are integers, which
\* float() keeps; the conversion is applied only to values that are not None.
Float(x) == x

\* datetime.date(): the calendar day of a timestamp
Date(t) == t \div TicksPerDay

\* f"{symbol}_{side}"
PosKey(symbol, side) == <<symbol, "_", side>>

BTC_long == PosKey("BTC", "long")
ETH_short == PosKey("ETH", "short")

\* an insertion-ordered dict: the keys in insertion order and the mapping
EmptyDict == [keys |-> <<>>, val |-> <<>>]
InDict(k, d) == \E n \in DOMAIN d.keys : d.keys[n] = k
DictGet(d, k) == d.val[CHOOSE n \in DOMAIN d.keys : d.keys[n] = k]
\* d[k] = v: a new key is appended, an existing key keeps its place
DictSet(d, k, v) ==
    IF InDict(k, d)
    THEN [d EXCEPT !.val[CHOOSE n \in DOMAIN d.keys : d.keys[n] = k] = v]
    ELSE [keys |-> Append(d.keys, k), val |-> Append(d.val, v)]
\* the entry left in the dict
DictDelNothing(d, k) == d

\* del d[k]
DictDel(d, k) ==
    LET keep == {n \in DOMAIN d.keys : d.keys[n] # k}
        F[n \in 0..Len(d.keys)] ==
            IF n = 0 THEN EmptyDict
            ELSE IF n \in keep
                 THEN [keys |-> Append(F[n-1].keys, d.keys[n]),
                       val |-> Append(F[n-1].val, d.val[n])]
                 ELSE F[n-1]
    IN F[Len(d.keys)]

\* the locals of an invocation of get_closed_positions that has not been made
NoInvocation ==
    [pc |-> "idle", rows |-> <<>>, snapshots_map |-> EmptyDict, sorted_snap_ids |-> <<>>,
     i |-> 1, position_start_times |-> EmptyDict, closed_positions |-> <<>>]

-----------------------------------------------------------------------------
(* Sorting: Python's sorted() and list.sort() are stable *)

\* sorted(seq, key=Key): ascending, equal keys keep their order
SortAscending(seq, Key(_)) ==
    LET F[n \in 0..Len(seq)] ==
            IF n = 0 THEN <<>>
            ELSE LET s == F[n-1]
                     x == seq[n]
                     before == Cardinality({m \in DOMAIN s : Key(s[m]) <= Key(x)})
                 IN SubSeq(s, 1, before) \o <<x>> \o SubSeq(s, before + 1, Len(s))
    IN F[Len(seq)]

\* seq.sort(key=Key, reverse=True): descending, equal keys keep their order
SortDescending(seq, Key(_)) ==
    LET F[n \in 0..Len(seq)] ==
            IF n = 0 THEN <<>>
            ELSE LET s == F[n-1]
                     x == seq[n]
                     before == Cardinality({m \in DOMAIN s : Key(s[m]) >= Key(x)})
                 IN SubSeq(s, 1, before) \o <<x>> \o SubSeq(s, before + 1, Len(s))
    IN F[Len(seq)]

-----------------------------------------------------------------------------
(* get_closed_positions *)

\* The rows of the SELECT: account_snapshots s JOIN open_positions op ON
\* s.id = op.snapshot_id ORDER BY s.created_at ASC. A snapshot without a row in
\* open_positions has no row in the join. The order among snapshots of equal
\* created_at is not set by the query: tie is the order the database picks.
JoinRow(s, op) ==
    <<s.id, s.created_at, op.symbol, op.side, op.entry_price, op.mark_price,
      op.pnl_usd, op.leverage>>

RowsOfSnapshot(s, ops) ==
    LET F[n \in 0..Len(ops)] ==
            IF n = 0 THEN <<>>
            ELSE IF ops[n].snapshot_id = s.id
                 THEN Append(F[n-1], JoinRow(s, ops[n]))
                 ELSE F[n-1]
    IN F[Len(ops)]

TieKey(s, tie) == IF tie = "id_asc" THEN s.id ELSE 0 - s.id

OrderByCreatedAt(snaps, tie) ==
    LET TK(s) == TieKey(s, tie)
        CK(s) == s.created_at
    IN SortAscending(SortAscending(snaps, TK), CK)

FetchRows(snaps, ops, tie) ==
    LET ordered == OrderByCreatedAt(snaps, tie)
        F[n \in 0..Len(ordered)] ==
            IF n = 0 THEN <<>>
            ELSE F[n-1] \o RowsOfSnapshot(ordered[n], ops)
    IN F[Len(ordered)]

\* the dict stored under pos_key for one row (row[k] of the code is row[k+1])
PositionOfRow(row) ==
    [symbol |-> row[3],
     side |-> row[4],
     entry_price |-> IF row[5] # None THEN Float(row[5][1]) ELSE 0,
     mark_price |-> IF row[6] # None THEN Float(row[6][1]) ELSE 0,
     pnl_usd |-> IF row[7] # None THEN Float(row[7][1]) ELSE 0,
     leverage |-> row[8]]

\* the row of a key that the snapshot already holds left out
AddRowKeepFirst(map, row) ==
    LET snap_id == row[1]
        m1 == IF ~InDict(snap_id, map)
              THEN DictSet(map, snap_id, [created_at |-> row[2], positions |-> EmptyDict])
              ELSE map
        snap == DictGet(m1, snap_id)
        pos_key == PosKey(row[3], row[4])
    IN IF InDict(pos_key, snap.positions)
       THEN m1
       ELSE DictSet(m1, snap_id,
                    [snap EXCEPT !.positions = DictSet(@, pos_key, PositionOfRow(row))])

\* one pass of "for row in rows" over the map built so far
AddRow(map, row) ==
    LET snap_id == row[1]
        created_at == row[2]
        m1 == IF ~InDict(snap_id, map)
              THEN DictSet(map, snap_id, [created_at |-> created_at, positions |-> EmptyDict])
              ELSE map
        snap == DictGet(m1, snap_id)
        pos_key == PosKey(row[3], row[4])
    IN DictSet(m1, snap_id,
               [snap EXCEPT !.positions = DictSet(@, pos_key, PositionOfRow(row))])

GroupRows(rs) ==
    LET F[n \in 0..Len(rs)] == IF n = 0 THEN EmptyDict ELSE AddRow(F[n-1], rs[n])
    IN F[Len(rs)]

\* the ids left in the order of the dict, that of arrival
SortSnapIdsArrival(map) == map.keys

\* sorted(snapshots_map.keys(), key=lambda k: snapshots_map[k]['created_at'])
SortSnapIds(map) ==
    LET CreatedAt(k) == DictGet(map, k).created_at
    IN SortAscending(map.keys, CreatedAt)

\* the start time overwritten at every sighting (the membership test left out)
IsNewAlways(pos_key, starts) == TRUE

\* if pos_key not in position_start_times
IsNew(pos_key, starts) == ~InDict(pos_key, starts)

\* step 1 of the loop body: the start time of the positions not yet tracked
RegisterNew(starts, curr_positions, curr_time) ==
    LET F[n \in 0..Len(curr_positions.keys)] ==
            IF n = 0 THEN starts
            ELSE IF IsNew(curr_positions.keys[n], F[n-1])
                 THEN DictSet(F[n-1], curr_positions.keys[n], curr_time)
                 ELSE F[n-1]
    IN F[Len(curr_positions.keys)]

\* exit_price taken from entry_price instead of mark_price
NewClosedPositionEntryAsExit(pos_data, opened_at, next_time) ==
    [symbol |-> pos_data.symbol,
     side |-> pos_data.side,
     entry_price |-> pos_data.entry_price,
     exit_price |-> pos_data.entry_price,
     pnl_usd |-> pos_data.pnl_usd,
     opened_at |-> opened_at,
     closed_at |-> next_time,
     leverage |-> pos_data.leverage]

\* ClosedPosition(...) of the code
NewClosedPosition(pos_data, opened_at, next_time) ==
    [symbol |-> pos_data.symbol,
     side |-> pos_data.side,
     entry_price |-> pos_data.entry_price,
     exit_price |-> pos_data.mark_price,
     pnl_usd |-> pos_data.pnl_usd,
     opened_at |-> opened_at,
     closed_at |-> next_time,
     leverage |-> pos_data.leverage]

\* if i < len(sorted_snap_ids): the last snapshot looks for a successor too
HasNextOffByOne(idx, ids) == idx <= Len(ids)

\* if i < len(sorted_snap_ids) - 1, with i counted from 1
HasNext(idx, ids) == idx < Len(ids)

\* if pos_key in next_positions: the test inverted
IsClosedInverted(pos_key, next_positions) == InDict(pos_key, next_positions)

\* if pos_key not in next_positions
IsClosed(pos_key, next_positions) == ~InDict(pos_key, next_positions)

\* position_start_times.get(pos_key, curr_time)
StartTimeOf(starts, pos_key, curr_time) ==
    IF InDict(pos_key, starts) THEN DictGet(starts, pos_key) ELSE curr_time

\* step 2 of the loop body for one pair: the positions of curr that are not in next
DetectClosed(tracking, curr_snap, next_snap) ==
    LET curr_positions == curr_snap.positions
        F[n \in 0..Len(curr_positions.keys)] ==
            IF n = 0 THEN tracking
            ELSE LET pos_key == curr_positions.keys[n]
                     pos_data == curr_positions.val[n]
                     t == F[n-1]
                 IN IF IsClosed(pos_key, next_snap.positions)
                    THEN [closed |-> Append(t.closed,
                              NewClosedPosition(pos_data,
                                  StartTimeOf(t.starts, pos_key, curr_snap.created_at),
                                  next_snap.created_at)),
                          starts |-> IF InDict(pos_key, t.starts)
                                     THEN DictDel(t.starts, pos_key)
                                     ELSE t.starts]
                    ELSE t
    IN F[Len(curr_positions.keys)]

\* the sort without reverse=True
SortClosedAscending(cps) ==
    LET ClosedAt(p) == p.closed_at
    IN SortAscending(cps, ClosedAt)

\* closed_positions.sort(key=lambda x: x.closed_at, reverse=True)
SortClosed(cps) ==
    LET ClosedAt(p) == p.closed_at
    IN SortDescending(cps, ClosedAt)

Fetch ==
    /\ pc = "fetch"
    /\ \E tie \in {"id_asc", "id_desc"} :
           rows' = FetchRows(account_snapshots, open_positions, tie)
    /\ pc' = "group"
    /\ UNCHANGED <<account_snapshots, open_positions, snapshots_map, sorted_snap_ids, i,
                   position_start_times, closed_positions, points, pnl_context, closed_context, other>>

Group ==
    /\ pc = "group"
    /\ snapshots_map' = GroupRows(rows)
    /\ sorted_snap_ids' = SortSnapIds(snapshots_map')
    /\ closed_positions' = <<>>
    /\ position_start_times' = EmptyDict
    /\ i' = 1
    /\ pc' = IF Len(sorted_snap_ids') = 0 THEN "sort" ELSE "register"
    /\ UNCHANGED <<account_snapshots, open_positions, rows, points, pnl_context, closed_context, other>>

Register ==
    /\ pc = "register"
    /\ LET curr_snap == DictGet(snapshots_map, sorted_snap_ids[i])
       IN position_start_times' =
              RegisterNew(position_start_times, curr_snap.positions, curr_snap.created_at)
    /\ pc' = "detect"
    /\ UNCHANGED <<account_snapshots, open_positions, rows, snapshots_map, sorted_snap_ids,
                   i, closed_positions, points, pnl_context, closed_context, other>>

\* sorted_snap_ids[i+1] raises IndexError past the end of the list: the handler
\* then ends in "error" instead of returning.
Detect ==
    /\ pc = "detect"
    /\ IF HasNext(i, sorted_snap_ids)
       THEN IF i + 1 \in DOMAIN sorted_snap_ids
            THEN LET t == DetectClosed([closed |-> closed_positions,
                                        starts |-> position_start_times],
                                       DictGet(snapshots_map, sorted_snap_ids[i]),
                                       DictGet(snapshots_map, sorted_snap_ids[i+1]))
                 IN /\ closed_positions' = t.closed
                    /\ position_start_times' = t.starts
                    /\ i' = i + 1
                    /\ pc' = "register"
            ELSE /\ pc' = "error"
                 /\ UNCHANGED <<closed_positions, position_start_times, i>>
       ELSE /\ UNCHANGED <<closed_positions, position_start_times>>
            /\ i' = i + 1
            /\ pc' = IF i < Len(sorted_snap_ids) THEN "register" ELSE "sort"
    /\ UNCHANGED <<account_snapshots, open_positions, rows, snapshots_map, sorted_snap_ids,
                   points, pnl_context, closed_context, other>>

Return ==
    /\ pc = "sort"
    /\ closed_positions' = SortClosed(closed_positions)
    /\ pc' = "done"
    /\ UNCHANGED <<account_snapshots, open_positions, rows, snapshots_map, sorted_snap_ids,
                   i, position_start_times, points, pnl_context, closed_context, other>>

-----------------------------------------------------------------------------
(* get_balance and ui_pnl_stats *)

\* A quotient of the code's floats, kept exact: the fraction num/den in lowest
\* terms with den > 0; the literal 0 is 0/1.
RECURSIVE Gcd(_, _)
Gcd(a, b) == IF b = 0 THEN a ELSE Gcd(b, a % b)

Abs(x) == IF x < 0 THEN 0 - x ELSE x

Ratio(num, den) ==
    LET g == Gcd(Abs(num), Abs(den))
        sign == IF den < 0 THEN 0 - 1 ELSE 1
    IN [num |-> sign * (num \div g), den |-> sign * (den \div g)]

Zero == [num |-> 0, den |-> 1]

\* the quotient without its guard: over a zero balance it has no value, kept
\* here as the fraction of denominator 0
PnlPercentUnguarded(pnl_usd, initial_balance) ==
    IF initial_balance # 0 THEN Ratio(pnl_usd * 100, initial_balance)
    ELSE [num |-> pnl_usd * 100, den |-> 0]

\* (pnl_usd / initial_balance * 100) if initial_balance != 0 else 0
PnlPercent(pnl_usd, initial_balance) ==
    IF initial_balance # 0 THEN Ratio(pnl_usd * 100, initial_balance) ELSE Zero

\* get_balance: SELECT created_at, balance_usd ... ORDER BY created_at ASC
GetBalance(snaps, tie) ==
    LET ordered == OrderByCreatedAt(snaps, tie)
    IN [n \in DOMAIN ordered |->
           [timestamp |-> ordered[n].created_at, balance_usd |-> Float(ordered[n].balance_usd)]]

\* [p for p in points if p.timestamp.date() < split_date]
ArchivePoints(pts) == SelectSeq(pts, LAMBDA p : Date(p.timestamp) < SplitDate)

\* [p for p in points if p.timestamp.date() >= split_date]
CurrentPoints(pts) == SelectSeq(pts, LAMBDA p : Date(p.timestamp) >= SplitDate)

ArchiveStats(pts) ==
    LET archive_points == ArchivePoints(pts)
    IN IF archive_points # <<>>
       THEN LET initial_balance_old == archive_points[1].balance_usd
                final_balance_old == archive_points[Len(archive_points)].balance_usd
                pnl_usd_old == final_balance_old - initial_balance_old
            IN Some([initial_balance |-> initial_balance_old,
                     current_balance |-> final_balance_old,
                     pnl_usd |-> pnl_usd_old,
                     pnl_percent |-> PnlPercent(pnl_usd_old, initial_balance_old)])
       ELSE None

\* the current regime treated like the archive: the first observed point as
\* initial balance
CurrentStatsObservedInitial(pts) ==
    LET current_points == CurrentPoints(pts)
    IN IF current_points # <<>>
       THEN LET initial_balance_new == current_points[1].balance_usd
                current_balance_new == current_points[Len(current_points)].balance_usd
                pnl_usd_new == current_balance_new - initial_balance_new
            IN Some([initial_balance |-> initial_balance_new,
                     current_balance |-> current_balance_new,
                     pnl_usd |-> pnl_usd_new,
                     pnl_percent |-> PnlPercent(pnl_usd_new, initial_balance_new)])
       ELSE Some([initial_balance |-> InitialBalanceNew,
                  current_balance |-> InitialBalanceNew,
                  pnl_usd |-> 0,
                  pnl_percent |-> Zero])

\* the current regime without its else branch: no stats when it has no point
CurrentStatsNoneWhenEmpty(pts) ==
    LET current_points == CurrentPoints(pts)
    IN IF current_points # <<>>
       THEN LET initial_balance_new == InitialBalanceNew
                current_balance_new == current_points[Len(current_points)].balance_usd
                pnl_usd_new == current_balance_new - initial_balance_new
            IN Some([initial_balance |-> initial_balance_new,
                     current_balance |-> current_balance_new,
                     pnl_usd |-> pnl_usd_new,
                     pnl_percent |-> PnlPercent(pnl_usd_new, initial_balance_new)])
       ELSE None

CurrentStats(pts) ==
    LET current_points == CurrentPoints(pts)
    IN IF current_points # <<>>
       THEN LET initial_balance_new == InitialBalanceNew
                current_balance_new == current_points[Len(current_points)].balance_usd
                pnl_usd_new == current_balance_new - initial_balance_new
            IN Some([initial_balance |-> initial_balance_new,
                     current_balance |-> current_balance_new,
                     pnl_usd |-> pnl_usd_new,
                     pnl_percent |-> PnlPercent(pnl_usd_new, initial_balance_new)])
       ELSE Some([initial_balance |-> InitialBalanceNew,
                  current_balance |-> InitialBalanceNew,
                  pnl_usd |-> 0,
                  pnl_percent |-> Zero])

\* the template context of ui_pnl_stats
PnlStats(pts) ==
    IF pts = <<>>
    THEN [current_stats |-> None, archive_stats |-> None, has_data |-> FALSE]
    ELSE [current_stats |-> CurrentStats(pts), archive_stats |-> ArchiveStats(pts),
          has_data |-> TRUE]

FetchBalance ==
    /\ pc = "balance"
    /\ \E tie \in {"id_asc", "id_desc"} : points' = GetBalance(account_snapshots, tie)
    /\ pc' = "stats"
    /\ UNCHANGED <<account_snapshots, open_positions, recon_vars, pnl_context, closed_context, other>>

RenderPnlStats ==
    /\ pc = "stats"
    /\ pnl_context' = Some(PnlStats(points))
    /\ pc' = "rendered"
    /\ UNCHANGED <<account_snapshots, open_positions, recon_vars, points, closed_context, other>>

-----------------------------------------------------------------------------
(* ui_closed_positions: the closed positions of each regime, their          *)
(* statistics and the records displayed. A win rate is held in tenths of a  *)
(* percent (667 is 66.7).                                                   *)

\* [p for p in positions if p.opened_at.date() >= split_date]
CurrentPositions(positions) ==
    SelectSeq(positions, LAMBDA p : Date(p.opened_at) >= SplitDate)

\* the archive taken by the day of closure
ArchivePositionsByClosedAt(positions) ==
    SelectSeq(positions, LAMBDA p : Date(p.closed_at) < SplitDate)

\* [p for p in positions if p.opened_at.date() < split_date]
ArchivePositions(positions) ==
    SelectSeq(positions, LAMBDA p : Date(p.opened_at) < SplitDate)

\* the tenths cut off instead of rounded
RoundTenthsDown(num, den) == (num * 1000) \div den

\* round(num / den * 100, 1) for den > 0, in tenths: the nearest tenth, and of
\* two equally near tenths the even one
RoundTenths(num, den) ==
    LET scaled == num * 1000
        q == scaled \div den
        r == scaled % den
    IN IF 2 * r < den THEN q
       ELSE IF 2 * r > den THEN q + 1
       ELSE IF q % 2 = 0 THEN q ELSE q + 1

\* a position that broke even counted as a win
IsWinOrEven(p) == p.pnl_usd >= 0

\* p.pnl_usd > 0
IsWin(p) == p.pnl_usd > 0

\* calculate_stats(pos_list)
CalculateStats(pos_list) ==
    LET total == Len(pos_list)
        wins == Len(SelectSeq(pos_list, IsWin))
        losses == total - wins
        win_rate == IF total > 0 THEN RoundTenths(wins, total) ELSE 0
    IN [total |-> total, wins |-> wins, losses |-> losses, win_rate |-> win_rate]

\* pos_list[:20]
Displayed(pos_list) ==
    SubSeq(pos_list, 1, IF Len(pos_list) < DisplayLimit THEN Len(pos_list) ELSE DisplayLimit)

\* the statistics taken from the records displayed
ClosedContextOfDisplayed(positions) ==
    [current_positions |-> Displayed(CurrentPositions(positions)),
     archive_positions |-> Displayed(ArchivePositions(positions)),
     current_stats |-> CalculateStats(Displayed(CurrentPositions(positions))),
     archive_stats |-> CalculateStats(Displayed(ArchivePositions(positions)))]

\* the template context of partials/closed_positions.html
ClosedContext(positions) ==
    LET current_positions == CurrentPositions(positions)
        archive_positions == ArchivePositions(positions)
    IN [current_positions |-> Displayed(current_positions),
        archive_positions |-> Displayed(archive_positions),
        current_stats |-> CalculateStats(current_positions),
        archive_stats |-> CalculateStats(archive_positions)]

\* the part of ui_closed_positions that follows positions = get_closed_positions()
RenderClosed ==
    /\ pc = "done"
    /\ closed_context' = Some(ClosedContext(closed_positions))
    /\ pc' = "closed_rendered"
    /\ UNCHANGED <<account_snapshots, open_positions, recon_vars, points, pnl_context, other>>

-----------------------------------------------------------------------------
(* The database a request finds *)

\* the records a position of the model can carry in a snapshot
RowDataOf(key) ==
    IF key = BTC_long
    THEN {[entry_price |-> Some(10), mark_price |-> Some(11), pnl_usd |-> Some(1),
           leverage |-> Some("2x")],
          [entry_price |-> None, mark_price |-> None, pnl_usd |-> None, leverage |-> None]}
    ELSE {[entry_price |-> Some(20), mark_price |-> Some(18), pnl_usd |-> Some(-2),
           leverage |-> Some("5x")],
          [entry_price |-> Some(21), mark_price |-> None, pnl_usd |-> Some(3),
           leverage |-> None]}

PositionChoices(key) == {None} \cup {Some(d) : d \in RowDataOf(key)}

SnapshotContents == [btc : PositionChoices(BTC_long), eth : PositionChoices(ETH_short)]

OpenPositionRow(snapshot_id, symbol, side, d) ==
    [snapshot_id |-> snapshot_id, symbol |-> symbol, side |-> side,
     entry_price |-> d.entry_price, mark_price |-> d.mark_price, pnl_usd |-> d.pnl_usd,
     leverage |-> d.leverage]

PositionsOf(snapshot_id, c) ==
    (IF c.btc # None THEN <<OpenPositionRow(snapshot_id, "BTC", "long", c.btc[1])>> ELSE <<>>)
    \o (IF c.eth # None THEN <<OpenPositionRow(snapshot_id, "ETH", "short", c.eth[1])>> ELSE <<>>)

SnapshotId(j) == 10 + j

OpenPositionsTable(contents) ==
    LET F[n \in 0..Len(contents)] ==
            IF n = 0 THEN <<>>
            ELSE F[n-1] \o PositionsOf(SnapshotId(n), contents[n])
    IN F[Len(contents)]

Init ==
    /\ \E n \in 0..MaxSnapshots :
          \E contents \in [1..n -> SnapshotContents] :
             /\ account_snapshots =
                    [j \in 1..n |-> [id |-> SnapshotId(j), created_at |-> j,
                                     balance_usd |-> InitialBalanceNew]]
             /\ open_positions = OpenPositionsTable(contents)
    /\ pc = "fetch"
    /\ rows = <<>>
    /\ snapshots_map = EmptyDict
    /\ sorted_snap_ids = <<>>
    /\ i = 1
    /\ position_start_times = EmptyDict
    /\ closed_positions = <<>>
    /\ points = <<>>
    /\ pnl_context = None
    /\ closed_context = None
    /\ other = NoInvocation

Next == Fetch \/ Group \/ Register \/ Detect \/ Return

Spec == Init /\ [][Next]_vars

\* The balance history a request of /ui/pnl-stats finds: up to MaxPoints
\* snapshots, created_at ascending with id over two calendar days (equal
\* created_at included), no open position.
Balances == {0, 80, 90, 100, 1100}

PnlTicks == 0..(2 * TicksPerDay - 1)

InitPnl ==
    /\ \E n \in 0..MaxPoints :
          \E ts \in [1..n -> PnlTicks], bs \in [1..n -> Balances] :
             /\ \A j \in 1..n : j > 1 => ts[j-1] <= ts[j]
             /\ account_snapshots =
                    [j \in 1..n |-> [id |-> SnapshotId(j), created_at |-> ts[j],
                                     balance_usd |-> bs[j]]]
    /\ open_positions = <<>>
    /\ pc = "balance"
    /\ rows = <<>>
    /\ snapshots_map = EmptyDict
    /\ sorted_snap_ids = <<>>
    /\ i = 1
    /\ position_start_times = EmptyDict
    /\ closed_positions = <<>>
    /\ points = <<>>
    /\ pnl_context = None
    /\ closed_context = None
    /\ other = NoInvocation

NextPnl == FetchBalance \/ RenderPnlStats

SpecPnl == InitPnl /\ [][NextPnl]_vars

\* The list ui_closed_positions gets from get_closed_positions(), drawn as the
\* history of one key: position idx of n, the newest first, is held for one
\* tick and closed one tick before the next one opens; the oldest `archived`
\* of them are opened before the cutover. The realized PnL is free for the
\* newest MaxHead positions at most and the same for up to MaxTail older ones.
\* The two tables are not read after the list is returned and are left empty.
PnlValues == {5, -2, 1}

TailPnlValues == {1, 0}

CutoverTick == SplitDate * TicksPerDay

ClosedPositionsOf(pnls, archived) ==
    LET n == Len(pnls)
        OpenedAt(idx) == CutoverTick - 2 * archived + 1 + 2 * (n - idx)
    IN [idx \in 1..n |->
          [symbol |-> "BTC", side |-> "long", entry_price |-> 10, exit_price |-> 11,
           pnl_usd |-> pnls[idx], opened_at |-> OpenedAt(idx),
           closed_at |-> OpenedAt(idx) + 1, leverage |-> Some("2x")]]

InitStats ==
    /\ \E nh \in 0..MaxHead, nt \in 0..MaxTail :
          \E head \in [1..nh -> PnlValues], tail \in TailPnlValues :
             \E archived \in 0..(nh + nt) :
                closed_positions =
                    ClosedPositionsOf(head \o [j \in 1..nt |-> tail], archived)
    /\ account_snapshots = <<>>
    /\ open_positions = <<>>
    /\ pc = "done"
    /\ rows = <<>>
    /\ snapshots_map = EmptyDict
    /\ sorted_snap_ids = <<>>
    /\ i = 1
    /\ position_start_times = EmptyDict
    /\ points = <<>>
    /\ pnl_context = None
    /\ closed_context = None
    /\ other = NoInvocation

NextStats == RenderClosed

SpecStats == InitStats /\ [][NextStats]_vars

\* The dashboard page fills its partials one request after the other over the
\* same database: /ui/closed-positions, then /ui/pnl-stats. The database holds
\* up to MaxDashSnapshots snapshots, created_at strictly ascending with id over
\* two calendar days, each position with one record.
DashChoices(key) == {None} \cup {Some(d) : d \in {r \in RowDataOf(key) : r.mark_price # None}}

DashContents == [btc : DashChoices(BTC_long), eth : DashChoices(ETH_short)]

InitDash ==
    /\ \E n \in 0..MaxDashSnapshots :
          \E ts \in [1..n -> PnlTicks], contents \in [1..n -> DashContents] :
             /\ \A j \in 1..n : j > 1 => ts[j-1] < ts[j]
             /\ account_snapshots =
                    [j \in 1..n |-> [id |-> SnapshotId(j), created_at |-> ts[j],
                                     balance_usd |-> InitialBalanceNew]]
             /\ open_positions = OpenPositionsTable(contents)
    /\ pc = "fetch"
    /\ rows = <<>>
    /\ snapshots_map = EmptyDict
    /\ sorted_snap_ids = <<>>
    /\ i = 1
    /\ position_start_times = EmptyDict
    /\ closed_positions = <<>>
    /\ points = <<>>
    /\ pnl_context = None
    /\ closed_context = None
    /\ other = NoInvocation

\* GET /ui/pnl-stats once the closed positions partial is rendered
RequestPnlStats ==
    /\ pc = "closed_rendered"
    /\ pc' = "balance"
    /\ UNCHANGED <<account_snapshots, open_positions, recon_vars, points, pnl_context,
                   closed_context, other>>

NextDash ==
    \/ Fetch \/ Group \/ Register \/ Detect \/ Return \/ RenderClosed
    \/ RequestPnlStats \/ FetchBalance \/ RenderPnlStats

SpecDash == InitDash /\ [][NextDash]_vars

\* Two invocations of get_closed_positions over the same database, their steps
\* interleaved in any way (the endpoint /closed-positions is a plain def, run
\* by the server in a thread pool). The locals of the second invocation are
\* the fields of other. The database holds up to MaxTwoSnapshots snapshots,
\* created_at strictly ascending with id, so that both fetch the same rows.

\* the dict of another invocation taken for the call's own
ForeignTracking(own, foreign) == foreign

\* position_start_times = {} is a local of the call: the dict a call reads is
\* the one it created
OwnTracking(own, foreign) == own

OtherFetch ==
    /\ other.pc = "fetch"
    /\ \E tie \in {"id_asc", "id_desc"} :
           other' = [other EXCEPT !.rows = FetchRows(account_snapshots, open_positions, tie),
                                  !.pc = "group"]
    /\ UNCHANGED <<account_snapshots, open_positions, pc, recon_vars, points, pnl_context,
                   closed_context>>

OtherGroup ==
    /\ other.pc = "group"
    /\ LET map == GroupRows(other.rows)
           ids == SortSnapIds(map)
       IN other' = [other EXCEPT !.snapshots_map = map,
                                 !.sorted_snap_ids = ids,
                                 !.closed_positions = <<>>,
                                 !.position_start_times = EmptyDict,
                                 !.i = 1,
                                 !.pc = IF Len(ids) = 0 THEN "sort" ELSE "register"]
    /\ UNCHANGED <<account_snapshots, open_positions, pc, recon_vars, points, pnl_context,
                   closed_context>>

OtherRegister ==
    /\ other.pc = "register"
    /\ LET curr_snap == DictGet(other.snapshots_map, other.sorted_snap_ids[other.i])
           starts == OwnTracking(other.position_start_times, position_start_times)
       IN other' = [other EXCEPT
                       !.position_start_times =
                           RegisterNew(starts, curr_snap.positions, curr_snap.created_at),
                       !.pc = "detect"]
    /\ UNCHANGED <<account_snapshots, open_positions, pc, recon_vars, points, pnl_context,
                   closed_context>>

OtherDetect ==
    /\ other.pc = "detect"
    /\ LET ids == other.sorted_snap_ids
           idx == other.i
           starts == OwnTracking(other.position_start_times, position_start_times)
       IN IF HasNext(idx, ids)
          THEN IF idx + 1 \in DOMAIN ids
               THEN LET t == DetectClosed([closed |-> other.closed_positions,
                                           starts |-> starts],
                                          DictGet(other.snapshots_map, ids[idx]),
                                          DictGet(other.snapshots_map, ids[idx+1]))
                    IN other' = [other EXCEPT !.closed_positions = t.closed,
                                              !.position_start_times = t.starts,
                                              !.i = idx + 1,
                                              !.pc = "register"]
               ELSE other' = [other EXCEPT !.pc = "error"]
          ELSE other' = [other EXCEPT !.i = idx + 1,
                                      !.pc = IF idx < Len(ids) THEN "register" ELSE "sort"]
    /\ UNCHANGED <<account_snapshots, open_positions, pc, recon_vars, points, pnl_context,
                   closed_context>>

OtherReturn ==
    /\ other.pc = "sort"
    /\ other' = [other EXCEPT !.closed_positions = SortClosed(other.closed_positions),
                              !.pc = "done"]
    /\ UNCHANGED <<account_snapshots, open_positions, pc, recon_vars, points, pnl_context,
                   closed_context>>

InitTwo ==
    /\ \E n \in 0..MaxTwoSnapshots :
          \E contents \in [1..n -> DashContents] :
             /\ account_snapshots =
                    [j \in 1..n |-> [id |-> SnapshotId(j), created_at |-> j,
                                     balance_usd |-> InitialBalanceNew]]
             /\ open_positions = OpenPositionsTable(contents)
    /\ pc = "fetch"
    /\ rows = <<>>
    /\ snapshots_map = EmptyDict
    /\ sorted_snap_ids = <<>>
    /\ i = 1
    /\ position_start_times = EmptyDict
    /\ closed_positions = <<>>
    /\ points = <<>>
    /\ pnl_context = None
    /\ closed_context = None
    /\ other = [NoInvocation EXCEPT !.pc = "fetch"]

NextTwo ==
    \/ Fetch \/ Group \/ Register \/ Detect \/ Return
    \/ OtherFetch \/ OtherGroup \/ OtherRegister \/ OtherDetect \/ OtherReturn

SpecTwo == InitTwo /\ [][NextTwo]_vars

\* A database in which snapshots may share their created_at: up to
\* MaxTieSnapshots snapshots, created_at ascending with id, each either equal
\* to the one before or one tick later.
TieTimestamps(n) ==
    {ts \in [1..n -> 1..n] :
        \A j \in 1..n : IF j = 1 THEN ts[j] = 1 ELSE ts[j] - ts[j-1] \in {0, 1}}

InitTies ==
    /\ \E n \in 0..MaxTieSnapshots :
          \E ts \in TieTimestamps(n), contents \in [1..n -> DashContents] :
             /\ account_snapshots =
                    [j \in 1..n |-> [id |-> SnapshotId(j), created_at |-> ts[j],
                                     balance_usd |-> InitialBalanceNew]]
             /\ open_positions = OpenPositionsTable(contents)
    /\ pc = "fetch"
    /\ rows = <<>>
    /\ snapshots_map = EmptyDict
    /\ sorted_snap_ids = <<>>
    /\ i = 1
    /\ position_start_times = EmptyDict
    /\ closed_positions = <<>>
    /\ points = <<>>
    /\ pnl_context = None
    /\ closed_context = None
    /\ other = NoInvocation

SpecTies == InitTies /\ [][Next]_vars

\* The reconciliation handed rows that the fetch did not order: the rows of
\* up to MaxRowSnapshots snapshots (equal created_at included), snapshot after
\* snapshot in any order, taken as the result of fetchall().
RowsInOrder(snaps, ops, order) ==
    LET F[n \in 0..Len(snaps)] ==
            IF n = 0 THEN <<>>
            ELSE F[n-1] \o RowsOfSnapshot(snaps[order[n]], ops)
    IN F[Len(snaps)]

InitRows ==
    /\ \E n \in 0..MaxRowSnapshots :
          \E ts \in TieTimestamps(n), contents \in [1..n -> DashContents] :
             /\ account_snapshots =
                    [j \in 1..n |-> [id |-> SnapshotId(j), created_at |-> ts[j],
                                     balance_usd |-> InitialBalanceNew]]
             /\ open_positions = OpenPositionsTable(contents)
             /\ \E order \in Permutations(1..n) :
                   rows = RowsInOrder(account_snapshots, open_positions, order)
    /\ pc = "group"
    /\ snapshots_map = EmptyDict
    /\ sorted_snap_ids = <<>>
    /\ i = 1
    /\ position_start_times = EmptyDict
    /\ closed_positions = <<>>
    /\ points = <<>>
    /\ pnl_context = None
    /\ closed_context = None
    /\ other = NoInvocation

NextRows == Group \/ Register \/ Detect \/ Return

SpecRows == InitRows /\ [][NextRows]_vars

\* A database in which a snapshot may hold several rows of one key: up to
\* MaxDupSnapshots snapshots, created_at strictly ascending with id, each with
\* up to MaxRows rows of BTC/long, in any order of their records, and at most
\* one row of ETH/short.
DupContents ==
    [btc : UNION {[1..m -> RowDataOf(BTC_long)] : m \in 0..MaxRows},
     eth : DashChoices(ETH_short)]

DupPositionsOf(snapshot_id, c) ==
    [m \in DOMAIN c.btc |-> OpenPositionRow(snapshot_id, "BTC", "long", c.btc[m])]
    \o (IF c.eth # None THEN <<OpenPositionRow(snapshot_id, "ETH", "short", c.eth[1])>>
        ELSE <<>>)

DupPositionsTable(contents) ==
    LET F[n \in 0..Len(contents)] ==
            IF n = 0 THEN <<>>
            ELSE F[n-1] \o DupPositionsOf(SnapshotId(n), contents[n])
    IN F[Len(contents)]

InitDup ==
    /\ \E n \in 0..MaxDupSnapshots :
          \E contents \in [1..n -> DupContents] :
             /\ account_snapshots =
                    [j \in 1..n |-> [id |-> SnapshotId(j), created_at |-> j,
                                     balance_usd |-> InitialBalanceNew]]
             /\ open_positions = DupPositionsTable(contents)
    /\ pc = "fetch"
    /\ rows = <<>>
    /\ snapshots_map = EmptyDict
    /\ sorted_snap_ids = <<>>
    /\ i = 1
    /\ position_start_times = EmptyDict
    /\ closed_positions = <<>>
    /\ points = <<>>
    /\ pnl_context = None
    /\ closed_context = None
    /\ other = NoInvocation

SpecDup == InitDup /\ [][Next]_vars

-----------------------------------------------------------------------------
(* The snapshot sequence of the Snapshot Source, read from the two tables:  *)
(* account_snapshots is kept ascending by (created_at, id).                 *)

NSnap == Len(account_snapshots)
Timestamp(j) == account_snapshots[j].created_at
AllKeys == {BTC_long, ETH_short}
KeyOf(r) == PosKey(r.symbol, r.side)

\* the rows of open_positions that belong to snapshot j and carry key k
RowsIn(j, k) ==
    {n \in DOMAIN open_positions :
        /\ open_positions[n].snapshot_id = account_snapshots[j].id
        /\ KeyOf(open_positions[n]) = k}

KeysIn(j) == {k \in AllKeys : RowsIn(j, k) # {}}

Min(S) == CHOOSE x \in S : \A y \in S : x <= y
Max(S) == CHOOSE x \in S : \A y \in S : x >= y

\* k is present in snapshot j and absent from snapshot j + 1
Disappears(k, j) == j \in 1..(NSnap - 1) /\ k \in KeysIn(j) /\ k \notin KeysIn(j + 1)

\* the first snapshot of the maximal unbroken run of snapshots containing k
\* that ends at snapshot j (k is in snapshot j)
RunStart(k, j) == Min({a \in 1..j : \A b \in a..j : k \in KeysIn(b)})

\* the records of the closed list for key k
RecordsOf(k) == {n \in DOMAIN closed_positions : KeyOf(closed_positions[n]) = k}

\* the snapshot the loop is at
CurrentSnapshot ==
    CHOOSE j \in 1..NSnap : account_snapshots[j].id = sorted_snap_ids[i]

OrZero(opt) == IF opt = None THEN 0 ELSE opt[1]

-----------------------------------------------------------------------------
(* Closure reconciliation *)

\* C1: for every adjacent pair (S_j, S_j+1) of the snapshot sequence, each key
\* present in S_j and absent from S_j+1 yields exactly one record of the
\* returned list with closed_at = S_j+1.timestamp.
C1_OneRecordPerDisappearance ==
    pc = "done" =>
        \A k \in AllKeys, j \in 1..(NSnap - 1) :
            Disappears(k, j) =>
                Cardinality({n \in RecordsOf(k) :
                                closed_positions[n].closed_at = Timestamp(j + 1)}) = 1

\* Scenario A: t1 {BTC/long}, t2 {BTC/long, ETH/short}, t3 {ETH/short}
ScenarioA ==
    /\ NSnap = 3
    /\ KeysIn(1) = {BTC_long}
    /\ KeysIn(2) = {BTC_long, ETH_short}
    /\ KeysIn(3) = {ETH_short}

\* C2 as stated: in Scenario A the returned list is one record, for BTC/long,
\* with opened_at = t1 and closed_at = t2.
C2_ScenarioA_ClosedAtT2 ==
    (pc = "done" /\ ScenarioA) =>
        /\ Len(closed_positions) = 1
        /\ KeyOf(closed_positions[1]) = BTC_long
        /\ closed_positions[1].opened_at = Timestamp(1)
        /\ closed_positions[1].closed_at = Timestamp(2)

\* C2 as amended: in Scenario A the returned list is one record, for BTC/long,
\* with opened_at = t1 and closed_at = t3, the timestamp of the snapshot where
\* the absence is detected; there is no record for ETH/short.
C2_ScenarioA_ClosedAtT3 ==
    (pc = "done" /\ ScenarioA) =>
        /\ Len(closed_positions) = 1
        /\ KeyOf(closed_positions[1]) = BTC_long
        /\ closed_positions[1].opened_at = Timestamp(1)
        /\ closed_positions[1].closed_at = Timestamp(3)
        /\ RecordsOf(ETH_short) = {}

C2_Witness == pc = "done" /\ ScenarioA

\* C3 as stated: no key present in the last snapshot appears in any record of
\* the returned list.
C3_LastSnapshotKeysAbsent ==
    (pc = "done" /\ NSnap >= 1) =>
        \A k \in KeysIn(NSnap) : RecordsOf(k) = {}

\* C3 as amended: the run of a key that reaches the last snapshot is never
\* reported closed: every record of a key present in the last snapshot is
\* closed at the timestamp of a snapshot that lacks the key and lies before the
\* first snapshot of that final run.
C3_FinalRunNeverClosed ==
    (pc = "done" /\ NSnap >= 1) =>
        \A k \in KeysIn(NSnap) :
            \A n \in RecordsOf(k) :
                \E j \in 1..(RunStart(k, NSnap) - 1) :
                    /\ k \notin KeysIn(j)
                    /\ closed_positions[n].closed_at = Timestamp(j)

\* a key of the last snapshot that was closed once before, and one that never was
C3_Witness ==
    /\ pc = "done"
    /\ NSnap >= 3
    /\ \E k \in KeysIn(NSnap) : RecordsOf(k) # {}
    /\ \E k \in KeysIn(NSnap) : RunStart(k, NSnap) < NSnap /\ RecordsOf(k) = {}

\* k is absent from snapshot r - 1, present in snapshot r, and was present before
Reappears(k, r) ==
    /\ r \in 2..NSnap
    /\ k \in KeysIn(r)
    /\ k \notin KeysIn(r - 1)
    /\ \E j \in 1..(r - 2) : k \in KeysIn(j)

\* C4: reopen. A run of a key that ends before a later reappearance yields one
\* record; after that closure the key is not tracked; at the snapshot where the
\* key reappears its tracked opened_at is that snapshot's timestamp; a record of
\* the second run carries that second opened_at.
C4_Reopen ==
    /\ pc = "done" =>
          \A k \in AllKeys, r \in 2..NSnap :
              Reappears(k, r) =>
                  /\ \A j \in 1..(r - 2) :
                        Disappears(k, j) =>
                            Cardinality({n \in RecordsOf(k) :
                                closed_positions[n].closed_at = Timestamp(j + 1)}) = 1
                  /\ \A e \in r..(NSnap - 1) :
                        (Disappears(k, e) /\ RunStart(k, e) = r) =>
                            \E n \in RecordsOf(k) :
                                /\ closed_positions[n].closed_at = Timestamp(e + 1)
                                /\ closed_positions[n].opened_at = Timestamp(r)
    /\ pc = "detect" =>
          \A k \in AllKeys :
              Reappears(k, CurrentSnapshot) =>
                  /\ InDict(k, position_start_times)
                  /\ DictGet(position_start_times, k) = Timestamp(CurrentSnapshot)
    /\ (pc = "register" /\ i > 1) =>
          \A k \in AllKeys :
              (k \notin KeysIn(CurrentSnapshot) /\ CurrentSnapshot > 1)
                  => ~InDict(k, position_start_times)

\* C5: a record emitted for key k at the pair (S_j, S_j+1) has opened_at = the
\* timestamp of the first snapshot of the maximal unbroken run containing k
\* that ends at S_j; while the run persists the tracked opened_at is that
\* timestamp.
C5_OpenedAtIsRunStart ==
    /\ pc = "done" =>
          \A k \in AllKeys, j \in 1..(NSnap - 1) :
              Disappears(k, j) =>
                  \A n \in RecordsOf(k) :
                      closed_positions[n].closed_at = Timestamp(j + 1) =>
                          closed_positions[n].opened_at = Timestamp(RunStart(k, j))
    /\ pc = "detect" =>
          \A k \in KeysIn(CurrentSnapshot) :
              /\ InDict(k, position_start_times)
              /\ DictGet(position_start_times, k)
                    = Timestamp(RunStart(k, CurrentSnapshot))

\* the last snapshot before the timestamp t in which key k is present
LastPresentBefore(k, t) == Max({j \in 1..NSnap : Timestamp(j) < t /\ k \in KeysIn(j)})

\* the row of key k in snapshot j that arrives last
RowOf(k, j) == open_positions[Max(RowsIn(j, k))]

\* C6: every record of the returned list takes entry_price, leverage,
\* exit_price (= mark_price) and realized PnL from the key's row in the last
\* snapshot where the key was present before the closure, with a missing
\* entry_price, mark_price or pnl read as 0, so the record is fully numeric.
C6_FieldsFromLastPresence ==
    pc = "done" =>
        \A n \in DOMAIN closed_positions :
            LET r == closed_positions[n]
                k == KeyOf(r)
                present == {j \in 1..NSnap : Timestamp(j) < r.closed_at /\ k \in KeysIn(j)}
            IN /\ present # {}
               /\ LET row == RowOf(k, LastPresentBefore(k, r.closed_at))
                  IN /\ r.entry_price = OrZero(row.entry_price)
                     /\ r.exit_price = OrZero(row.mark_price)
                     /\ r.pnl_usd = OrZero(row.pnl_usd)
                     /\ r.leverage = row.leverage
               /\ r.entry_price \in Int
               /\ r.exit_price \in Int
               /\ r.pnl_usd \in Int

\* a record of a run of several snapshots whose first row had prices and whose
\* last row had none, and a record whose first row had none and last row had them
C6_Witness ==
    /\ pc = "done"
    /\ \E n \in DOMAIN closed_positions :
          LET r == closed_positions[n]
              k == KeyOf(r)
              last == LastPresentBefore(k, r.closed_at)
              first == RunStart(k, last)
          IN /\ first < last
             /\ RowOf(k, first).entry_price # None
             /\ RowOf(k, last).entry_price = None
             /\ RowOf(k, last).mark_price = None
             /\ RowOf(k, last).pnl_usd = None
             /\ r.entry_price = 0
    /\ \E n \in DOMAIN closed_positions :
          LET r == closed_positions[n]
              k == KeyOf(r)
              last == LastPresentBefore(k, r.closed_at)
              first == RunStart(k, last)
          IN /\ first < last
             /\ RowOf(k, first).mark_price = None
             /\ RowOf(k, last).mark_price # None
             /\ k \in KeysIn(last + 1)
                   => RowOf(k, last + 1).mark_price # RowOf(k, last).mark_price

\* the records of a list, counted
BagOfRecords(seq) ==
    [r \in {seq[n] : n \in DOMAIN seq} |-> Cardinality({n \in DOMAIN seq : seq[n] = r})]

SortedByClosedAtDescending(seq) ==
    \A n \in 1..(Len(seq) - 1) : seq[n].closed_at >= seq[n + 1].closed_at

\* C7: the returned list is sorted by closed_at descending, and the sort
\* neither adds nor drops records.
C7_SortedDescending ==
    [][pc = "sort" =>
          /\ SortedByClosedAtDescending(closed_positions')
          /\ BagOfRecords(closed_positions') = BagOfRecords(closed_positions)]_vars

\* a returned list that the sort had to reorder
C7_Witness ==
    /\ pc = "done"
    /\ Len(closed_positions) >= 3
    /\ closed_positions[1].closed_at > closed_positions[Len(closed_positions)].closed_at

\* C8: a snapshot sequence of zero or one snapshot yields an empty list, and
\* the handler does not end in an error.
C8_DegenerateSequenceIsEmpty ==
    NSnap <= 1 =>
        /\ pc # "error"
        /\ closed_positions = <<>>

C8_Witness == pc = "done" /\ NSnap = 1 /\ KeysIn(1) = AllKeys

-----------------------------------------------------------------------------
(* Balance PnL per regime *)

ArchiveIdx == {n \in DOMAIN points : Date(points[n].timestamp) < SplitDate}
CurrentIdx == {n \in DOMAIN points : Date(points[n].timestamp) >= SplitDate}

\* C9: archive initial_balance and final_balance are the balances of the first
\* and the last point with date < cutover, and pnl_usd their difference; current
\* initial_balance is 1032 whatever the points are, final_balance the balance of
\* the last point with date >= cutover, and pnl_usd = final_balance - 1032.
\* Archive [100, 90, 80] gives -20 and -20%; a last balance of 1100 gives 68.
C9_BalancePnlPerRegime ==
    pc = "rendered" =>
        LET ctx == pnl_context[1]
        IN /\ ArchiveIdx # {} =>
                 /\ ctx.archive_stats # None
                 /\ LET a == ctx.archive_stats[1]
                    IN /\ a.initial_balance = points[Min(ArchiveIdx)].balance_usd
                       /\ a.current_balance = points[Max(ArchiveIdx)].balance_usd
                       /\ a.pnl_usd = a.current_balance - a.initial_balance
                       /\ (Cardinality(ArchiveIdx) = 3
                           /\ points[1].balance_usd = 100
                           /\ points[2].balance_usd = 90
                           /\ points[3].balance_usd = 80)
                             => (a.pnl_usd = 0 - 20
                                 /\ a.pnl_percent = [num |-> 0 - 20, den |-> 1])
           /\ CurrentIdx # {} =>
                 /\ ctx.current_stats # None
                 /\ LET c == ctx.current_stats[1]
                    IN /\ c.initial_balance = 1032
                       /\ c.current_balance = points[Max(CurrentIdx)].balance_usd
                       /\ c.pnl_usd = c.current_balance - 1032
                       /\ c.current_balance = 1100 => c.pnl_usd = 68

\* both regimes hold points, and the first current point is not the override
C9_Witness ==
    /\ pc = "rendered"
    /\ Cardinality(ArchiveIdx) >= 2
    /\ points[Min(ArchiveIdx)].balance_usd = 100
    /\ points[Max(ArchiveIdx)].balance_usd = 80
    /\ CurrentIdx # {}
    /\ points[Max(CurrentIdx)].balance_usd = 1100

OverrideOnly ==
    [initial_balance |-> 1032, current_balance |-> 1032, pnl_usd |-> 0, pnl_percent |-> Zero]

\* C10 as stated: for every balance series with no point of date >= cutover,
\* the empty series included, the current stats are the override as initial and
\* final balance with pnl_usd = 0 and pnl_pct = 0.
C10_EmptyRegimeAnySeries ==
    (pc = "rendered" /\ CurrentIdx = {}) =>
        pnl_context[1].current_stats = Some(OverrideOnly)

\* C10 as amended: for every balance series that is not empty and has no point
\* of date >= cutover, the current stats are the override as initial and final
\* balance with pnl_usd = 0 and pnl_pct = 0; for the empty series no stats are
\* reported at all (has_data is false).
C10_EmptyRegimeNonEmptySeries ==
    /\ (pc = "rendered" /\ CurrentIdx = {} /\ points # <<>>) =>
          /\ pnl_context[1].current_stats = Some(OverrideOnly)
          /\ pnl_context[1].has_data
    /\ (pc = "rendered" /\ points = <<>>) =>
          /\ pnl_context[1].current_stats = None
          /\ ~pnl_context[1].has_data

C10_Witness == pc = "rendered" /\ CurrentIdx = {} /\ Len(points) >= 2

-----------------------------------------------------------------------------
(* The statistics of the closed positions of a regime *)

StatsOfContext == {closed_context[1].current_stats, closed_context[1].archive_stats}

\* C11: for every list given to calculate_stats the win rate lies within
\* [0, 100]; it is wins / total * 100 rounded to one decimal (no tenth is
\* nearer to the quotient) when total > 0, and 0 when total = 0.
C11_WinRateRounded ==
    pc = "closed_rendered" =>
        \A s \in StatsOfContext :
            /\ s.win_rate \in 0..1000
            /\ s.total = 0 => s.win_rate = 0
            /\ s.total > 0 => 2 * Abs(s.win_rate * s.total - 1000 * s.wins) <= s.total

\* one win in three positions, 33.3, beside an empty regime, and one win in
\* sixteen, 6.25, reported as 6.2
C11_Witness ==
    /\ pc = "closed_rendered"
    /\ \/ /\ closed_context[1].current_stats.total = 3
          /\ closed_context[1].current_stats.wins = 1
          /\ closed_context[1].current_stats.win_rate = 333
          /\ closed_context[1].archive_stats.total = 0
          /\ closed_context[1].archive_stats.win_rate = 0
       \/ /\ closed_context[1].current_stats.total = 16
          /\ closed_context[1].current_stats.wins = 1
          /\ closed_context[1].current_stats.win_rate = 62

\* the indices, in the list get_closed_positions returned, of the positions of
\* a regime: the current one when opened on the split date or later
RegimeIdx(current) ==
    {n \in DOMAIN closed_positions :
        (Date(closed_positions[n].opened_at) >= SplitDate) <=> current}

RegimePnls(current) ==
    LET InRegime(p) == (Date(p.opened_at) >= SplitDate) <=> current
        ps == SelectSeq(closed_positions, InRegime)
    IN [n \in DOMAIN ps |-> ps[n].pnl_usd]

StatsOfRegime(current) ==
    IF current THEN closed_context[1].current_stats ELSE closed_context[1].archive_stats

\* C12: for every regime, total is the number of its closed positions, wins
\* the number of them with realized PnL > 0 and losses = total - wins, so that
\* a PnL of exactly 0 counts as a loss; realized PnLs [+5, -2, +1] give wins
\* 2, losses 1 and win rate 66.7.
C12_WinsAndLosses ==
    pc = "closed_rendered" =>
        \A current \in BOOLEAN :
            LET s == StatsOfRegime(current)
                idx == RegimeIdx(current)
            IN /\ s.total = Cardinality(idx)
               /\ s.wins = Cardinality({n \in idx : closed_positions[n].pnl_usd > 0})
               /\ s.losses = s.total - s.wins
               /\ s.losses = Cardinality({n \in idx : closed_positions[n].pnl_usd <= 0})
               /\ RegimePnls(current) = <<5, -2, 1>> =>
                     s.wins = 2 /\ s.losses = 1 /\ s.win_rate = 667

\* the current regime closed +5, -2, +1 and the archive one position at 0
C12_Witness ==
    /\ pc = "closed_rendered"
    /\ RegimePnls(TRUE) = <<5, -2, 1>>
    /\ RegimePnls(FALSE) = <<0>>
    /\ closed_context[1].current_stats.win_rate = 667
    /\ closed_context[1].archive_stats.losses = 1

DisplayedOfRegime(current) ==
    IF current THEN closed_context[1].current_positions
    ELSE closed_context[1].archive_positions

\* the positions of a regime in the order of the list returned
RegimePositions(current) ==
    LET InRegime(p) == (Date(p.opened_at) >= SplitDate) <=> current
    IN SelectSeq(closed_positions, InRegime)

\* C14: the statistics of a regime are taken over all its closed positions,
\* never over the list displayed: total counts every position of the regime
\* while the list displayed holds its first 20 records at most, which are the
\* 20 of greatest closed_at; each regime is cut on its own.
C14_StatsOverFullRegime ==
    pc = "closed_rendered" =>
        \A current \in BOOLEAN :
            LET all == RegimePositions(current)
                shown == DisplayedOfRegime(current)
            IN /\ StatsOfRegime(current).total = Len(all)
               /\ Len(shown) = Min({Len(all), DisplayLimit})
               /\ \A n \in DOMAIN shown : shown[n] = all[n]
               /\ \A n \in DOMAIN all :
                     n > Len(shown) =>
                        \A m \in DOMAIN shown : all[n].closed_at <= shown[m].closed_at

\* a regime of more than 20 positions beside a regime displayed in full
C14_Witness ==
    /\ pc = "closed_rendered"
    /\ \E current \in BOOLEAN :
          /\ StatsOfRegime(current).total > DisplayLimit
          /\ Len(DisplayedOfRegime(current)) = DisplayLimit
          /\ StatsOfRegime(~current).total > 0
          /\ Len(DisplayedOfRegime(~current)) = StatsOfRegime(~current).total

-----------------------------------------------------------------------------
(* The regime split *)

Range(seq) == {seq[n] : n \in DOMAIN seq}

\* C13: the regime split is a partition. Every closed position is in exactly
\* one of the archive and the current list, by the date of its opened_at, so
\* that a position opened before the cutover and closed on or after it is in
\* the archive; the two totals add up to the number of closed positions; and
\* every balance point is in exactly one regime by the date of its timestamp.
C13_RegimePartition ==
    /\ closed_context # None =>
          LET ctx == closed_context[1] IN
          /\ ctx.archive_stats.total + ctx.current_stats.total = Len(closed_positions)
          /\ \A n \in DOMAIN closed_positions :
                LET p == closed_positions[n] IN
                IF Date(p.opened_at) < SplitDate
                THEN p \in Range(ctx.archive_positions) /\ p \notin Range(ctx.current_positions)
                ELSE p \in Range(ctx.current_positions) /\ p \notin Range(ctx.archive_positions)
    /\ pc \in {"stats", "rendered"} =>
          /\ Len(ArchivePoints(points)) + Len(CurrentPoints(points)) = Len(points)
          /\ \A n \in DOMAIN points :
                IF Date(points[n].timestamp) < SplitDate
                THEN /\ points[n] \in Range(ArchivePoints(points))
                     /\ points[n] \notin Range(CurrentPoints(points))
                ELSE /\ points[n] \in Range(CurrentPoints(points))
                     /\ points[n] \notin Range(ArchivePoints(points))

\* both partials rendered, with a position opened before the cutover and
\* closed after it, a position opened after it, and balance points on both sides
C13_Witness ==
    /\ pc = "rendered"
    /\ \E p \in Range(closed_context[1].archive_positions) :
          Date(p.opened_at) < SplitDate /\ Date(p.closed_at) >= SplitDate
    /\ closed_context[1].current_stats.total > 0
    /\ ArchivePoints(points) # <<>>
    /\ CurrentPoints(points) # <<>>

-----------------------------------------------------------------------------
(* Two invocations *)

-----------------------------------------------------------------------------
(* The order in which the snapshots are processed *)

CreatedAtOf(id) ==
    LET n == CHOOSE m \in DOMAIN account_snapshots : account_snapshots[m].id = id
    IN account_snapshots[n].created_at

\* C16: the snapshots are processed in ascending order of timestamp and, of
\* two snapshots of equal timestamp, the one of smaller id first, whatever the
\* order in which the fetch delivers their rows.
C16_ProcessedByTimestampThenId ==
    pc \in {"register", "detect", "sort", "done"} =>
        \A a, b \in DOMAIN sorted_snap_ids :
            a < b =>
                \/ CreatedAtOf(sorted_snap_ids[a]) < CreatedAtOf(sorted_snap_ids[b])
                \/ /\ CreatedAtOf(sorted_snap_ids[a]) = CreatedAtOf(sorted_snap_ids[b])
                   /\ sorted_snap_ids[a] < sorted_snap_ids[b]

\* the ids of the snapshots in the order in which their first rows arrived
ArrivalIds ==
    LET F[n \in 0..Len(rows)] ==
            IF n = 0 THEN <<>>
            ELSE LET seen == F[n-1]
                 IN IF \E m \in DOMAIN seen : seen[m] = rows[n][1]
                    THEN seen
                    ELSE Append(seen, rows[n][1])
    IN F[Len(rows)]

ArrivalAscending ==
    \A a, b \in DOMAIN ArrivalIds :
        a < b => CreatedAtOf(ArrivalIds[a]) <= CreatedAtOf(ArrivalIds[b])

Grouped == pc \in {"register", "detect", "sort", "done", "error"}

\* C17: the reconciler does not sort or validate its input: when the rows
\* arrive in an order that is not ascending by timestamp, the snapshots are
\* compared pairwise in the order of arrival, and no error is raised.
C17_ComparedInArrivalOrder ==
    /\ pc # "error"
    /\ Grouped => sorted_snap_ids = ArrivalIds

\* C17 (amended): the reconciler validates nothing but sorts the snapshots
\* by timestamp: whatever the order of arrival of the rows, the snapshots are
\* compared pairwise in ascending order of timestamp, those of equal timestamp
\* in the order of arrival, and no error is raised.
C17_ComparedInTimestampOrder ==
    /\ pc # "error"
    /\ Grouped =>
          LET arrival == ArrivalIds
              Place(id) == CHOOSE x \in DOMAIN arrival : arrival[x] = id
              created == [id \in Range(arrival) |-> CreatedAtOf(id)]
          IN /\ Len(sorted_snap_ids) = Len(arrival)
             /\ Range(sorted_snap_ids) = Range(arrival)
             /\ \A a, b \in DOMAIN sorted_snap_ids :
                   a < b =>
                       LET ida == sorted_snap_ids[a]
                           idb == sorted_snap_ids[b]
                       IN \/ created[ida] < created[idb]
                          \/ created[ida] = created[idb] /\ Place(ida) < Place(idb)

\* rows that arrived out of timestamp order, reconciled to the end with a
\* closure found between two snapshots that did not arrive one after the other
C17_Witness ==
    /\ pc = "done"
    /\ ~ArrivalAscending
    /\ sorted_snap_ids # ArrivalIds
    /\ closed_positions # <<>>

-----------------------------------------------------------------------------
(* Several rows of one key in a snapshot *)

\* C18: within one snapshot at most one record is kept per (symbol, side)
\* key: of several rows of the snapshot that share a key, the one that
\* arrives last replaces the earlier ones; a closure of the key carries the
\* prices, the PnL and the leverage of that last row only, and is emitted
\* once, not once per row.
C18_LastRowOfKeyWins ==
    /\ (pc = "register" /\ i = 1) =>
          \A j \in 1..NSnap :
              KeysIn(j) # {} =>
                  LET positions == DictGet(snapshots_map, SnapshotId(j)).positions
                  IN /\ Len(positions.keys) = Cardinality(KeysIn(j))
                     /\ Range(positions.keys) = KeysIn(j)
                     /\ \A k \in KeysIn(j) :
                           LET kept == DictGet(positions, k)
                               row == RowOf(k, j)
                           IN /\ kept.entry_price = OrZero(row.entry_price)
                              /\ kept.mark_price = OrZero(row.mark_price)
                              /\ kept.pnl_usd = OrZero(row.pnl_usd)
                              /\ kept.leverage = row.leverage
    /\ pc = "done" =>
          /\ \A n \in DOMAIN closed_positions :
                LET r == closed_positions[n]
                    k == KeyOf(r)
                    row == RowOf(k, LastPresentBefore(k, r.closed_at))
                IN /\ r.entry_price = OrZero(row.entry_price)
                   /\ r.exit_price = OrZero(row.mark_price)
                   /\ r.pnl_usd = OrZero(row.pnl_usd)
                   /\ r.leverage = row.leverage
          /\ \A n, m \in DOMAIN closed_positions :
                (/\ KeyOf(closed_positions[n]) = KeyOf(closed_positions[m])
                 /\ closed_positions[n].closed_at = closed_positions[m].closed_at) => n = m

\* a closure of BTC/long whose last snapshot held two rows of the key with
\* different PnL: one record, with the PnL of the second row
C18_Witness ==
    /\ pc = "done"
    /\ Len(closed_positions) = 1
    /\ KeyOf(closed_positions[1]) = BTC_long
    /\ Cardinality(RowsIn(1, BTC_long)) = 2
    /\ open_positions[Min(RowsIn(1, BTC_long))].pnl_usd # RowOf(BTC_long, 1).pnl_usd
    /\ closed_positions[1].pnl_usd = OrZero(RowOf(BTC_long, 1).pnl_usd)

-----------------------------------------------------------------------------
(* Balance statistics of a regime without points or with a zero balance *)

ReportedStats ==
    {s \in {pnl_context[1].archive_stats, pnl_context[1].current_stats} : s # None}

\* C19 as stated: for every balance series the statistics of both regimes are
\* reported; pnl_pct of a regime is 0 when its initial balance is 0; a regime
\* with no balance point, the whole series being empty or all its points on
\* the other side of the cutover, reports PnL fields equal to 0.
C19_AlwaysReported ==
    pc = "rendered" =>
        /\ pnl_context[1].archive_stats # None
        /\ pnl_context[1].current_stats # None
        /\ \A s \in ReportedStats : s[1].initial_balance = 0 => s[1].pnl_percent = Zero
        /\ ArchiveIdx = {} =>
              /\ pnl_context[1].archive_stats[1].pnl_usd = 0
              /\ pnl_context[1].archive_stats[1].pnl_percent = Zero
        /\ CurrentIdx = {} =>
              /\ pnl_context[1].current_stats[1].pnl_usd = 0
              /\ pnl_context[1].current_stats[1].pnl_percent = Zero

\* C19 as amended: for every balance series the percentage of a reported
\* regime is a quotient by a non-zero balance, or 0 when the initial balance
\* is 0; the archive regime without a point has no statistics; the current
\* regime without a point reports PnL fields equal to 0 when the series has a
\* point, and no statistics when the series is empty (has_data false).
C19_ZeroSafeOrAbsent ==
    pc = "rendered" =>
        /\ \A s \in ReportedStats :
              /\ s[1].pnl_percent.den > 0
              /\ s[1].initial_balance = 0 => s[1].pnl_percent = Zero
        /\ ArchiveIdx = {} <=> pnl_context[1].archive_stats = None
        /\ points = <<>> <=> pnl_context[1].current_stats = None
        /\ points = <<>> <=> ~pnl_context[1].has_data
        /\ (CurrentIdx = {} /\ points # <<>>) =>
              /\ pnl_context[1].current_stats[1].pnl_usd = 0
              /\ pnl_context[1].current_stats[1].pnl_percent = Zero

\* an archive regime that starts from a balance of 0 and ends above it, beside
\* a current regime without a point
C19_Witness ==
    /\ pc = "rendered"
    /\ CurrentIdx = {}
    /\ pnl_context[1].archive_stats # None
    /\ pnl_context[1].archive_stats[1].initial_balance = 0
    /\ pnl_context[1].archive_stats[1].pnl_usd > 0
    /\ pnl_context[1].archive_stats[1].pnl_percent = Zero

-----------------------------------------------------------------------------
(* The tracking of the start times *)

\* the keys of the rows of open_positions that belong to the snapshot of an id
KeysOfSnapshot(id) ==
    {k \in AllKeys :
        \E n \in DOMAIN open_positions :
            open_positions[n].snapshot_id = id /\ KeyOf(open_positions[n]) = k}

\* C20: at every iteration of the loop, once step 1 has registered the new
\* keys, the keys of position_start_times are exactly the keys of the
\* positions of the snapshot of the iteration, none of a key closed earlier
\* being left; hence position_start_times.get(key, curr_time) never takes its
\* default and the test before the delete is always true.
C20_TrackedKeysAreCurrentKeys ==
    pc = "detect" =>
        LET curr == KeysOfSnapshot(sorted_snap_ids[i])
        IN /\ Range(position_start_times.keys) = curr
           /\ Len(position_start_times.keys) = Cardinality(curr)
           /\ \A k \in curr : InDict(k, position_start_times)

\* step 1 done at a snapshot that follows a closure, the closed key being
\* neither in the snapshot nor tracked, another key tracked since earlier
C20_Witness ==
    /\ pc = "detect"
    /\ \E n \in DOMAIN closed_positions :
          /\ KeyOf(closed_positions[n]) \notin KeysOfSnapshot(sorted_snap_ids[i])
          /\ ~InDict(KeyOf(closed_positions[n]), position_start_times)
    /\ \E k \in KeysOfSnapshot(sorted_snap_ids[i]) :
          DictGet(position_start_times, k) < CreatedAtOf(sorted_snap_ids[i])

-----------------------------------------------------------------------------
(* The lifecycles emitted *)

\* C21: for snapshots of strictly ascending timestamps, every record emitted
\* has opened_at < closed_at, and two records of the same key have disjoint
\* intervals: the one closed first is closed strictly before the other opens.
C21_LifecyclesWellFormed ==
    /\ \A n \in DOMAIN closed_positions :
          closed_positions[n].opened_at < closed_positions[n].closed_at
    /\ \A n, m \in DOMAIN closed_positions :
          (/\ n # m
           /\ KeyOf(closed_positions[n]) = KeyOf(closed_positions[m])
           /\ closed_positions[n].closed_at <= closed_positions[m].closed_at) =>
              closed_positions[n].closed_at < closed_positions[m].opened_at

\* the list returned holds two lifecycles of one key, closed and reopened
C21_Witness ==
    /\ pc = "done"
    /\ \A j \in 1..(NSnap - 1) : Timestamp(j) < Timestamp(j + 1)
    /\ \E n, m \in DOMAIN closed_positions :
          /\ n # m
          /\ KeyOf(closed_positions[n]) = KeyOf(closed_positions[m])
          /\ closed_positions[n].closed_at < closed_positions[m].opened_at

====
